---- MODULE Spec2Model ----
(***************************************************************************)
(* A model of sd_json.py: the Schedules Direct JSON -> XMLTV generator.    *)
(* One run of the program is api_programs (fetch the schedules, load the   *)
(* cache from the previous xmltv file, fetch the uncached programs)        *)
(* followed by api_xmltv (channels, one programme per schedule slot, write *)
(* the file).  Successive runs read the file the previous run wrote.       *)
(*                                                                         *)
(* Python strings are sequences of one-character strings, so that str(),   *)
(* the format specification, the keyword prefix and the regular            *)
(* expressions are computed character by character.  XML elements are      *)
(* records [tag, attrib, text, children]; attrib is a set of <<key,        *)
(* value>> pairs and children a sequence of elements.                      *)
(***************************************************************************)
EXTENDS Integers, Sequences, FiniteSets, TLC

VARIABLES
    pc,                        \* where the process is: "idle", "xmltv", "slots", "write", "unit"
    runs,                      \* number of runs started so far
    server,                    \* what Schedules Direct serves: lineup, schedules, programs
    xmltv_file,                \* the xmltv file on disk: [exists, root]
    api_channel_mapping_json,  \* self.api_channel_mapping_json
    api_schedules_json,        \* self.api_schedules_json
    api_programs_json,         \* self.api_programs_json
    xmltv_cache,               \* self.xmltv_cache: md5 -> programme element
    root,                      \* children of the <tv> element being built
    pgmid_counts,              \* programID -> dd_progid counter
    pgm_prec,                  \* width of the dd_progid counter
    pos,                       \* <<index into api_schedules_json, index into its programs>>
    log,                       \* what this run did with each slot so far, in order
    prev_log,                  \* the log of the previous run, while the server is unchanged
    warnings,                  \* number of warn.warn calls of this run
    unit                       \* a call of one of the pure functions: [fn, arg, returned, value]

vars == <<pc, runs, server, xmltv_file, api_channel_mapping_json, api_schedules_json,
          api_programs_json, xmltv_cache, root, pgmid_counts, pgm_prec, pos, log,
          prev_log, warnings, unit>>

----------------------------------------------------------------------------
(* Bounds of the model.                                                    *)

MaxRuns == 3        \* runs of the program in one behaviour
MaxSlots == 2       \* slots in the programs array of the first schedule object
MaxCount == 12      \* largest dd_progid counter formatted in a unit call
MaxDoc == 3         \* elements of an xmltv file given to a call of load_xmltv_cache

----------------------------------------------------------------------------
(* Characters and strings.                                                 *)

DigitChars == <<"0","1","2","3","4","5","6","7","8","9">>
UpperChars == <<"A","B","C","D","E","F","G","H","I","J","K","L","M","N","O","P","Q","R","S","T","U","V","W","X","Y","Z">>
LowerChars == <<"a","b","c","d","e","f","g","h","i","j","k","l","m","n","o","p","q","r","s","t","u","v","w","x","y","z">>

\* string.punctuation (without the backquote, which a string literal here cannot
\* hold; no role string of the model has one)
Punctuation ==
    {"!","\"","#","$","%","&","'","(",")","*","+",",","-",".","/",":",";","<","=",">","?","@","[","\\","]","^","_","{","|","}","~"}

\* None, for a value that is otherwise a non-empty string
None == <<>>

RECURSIVE NatStr(_)
NatStr(n) ==
    IF n < 10 THEN <<DigitChars[n + 1]>>
    ELSE NatStr(n \div 10) \o <<DigitChars[(n % 10) + 1]>>

\* str(n) of a Python int
str(n) == IF n < 0 THEN <<"-">> \o NatStr(0 - n) ELSE NatStr(n)

DigitValue(c) == CHOOSE d \in 0..9 : DigitChars[d + 1] = c

RECURSIVE int(_)
\* int(s) of a string of decimal digits
int(s) ==
    IF Len(s) = 0 THEN 0
    ELSE 10 * int(SubSeq(s, 1, Len(s) - 1)) + DigitValue(s[Len(s)])

\* format(n, "0{w}d") for n >= 0: zero-filled to w characters, never cut
ZeroFill(n, w) ==
    LET s == str(n)
    IN  IF Len(s) >= w THEN s ELSE [k \in 1..(w - Len(s)) |-> "0"] \o s

RECURSIVE CeilLog10(_)
\* math.ceil(math.log10(n)) for n >= 1
CeilLog10(n) == IF n <= 1 THEN 0 ELSE 1 + CeilLog10((n + 9) \div 10)

Max(a, b) == IF a >= b THEN a ELSE b

\* str.lower() of one character
LowerChar(c) ==
    IF \E k \in 1..26 : UpperChars[k] = c
    THEN LowerChars[CHOOSE k \in 1..26 : UpperChars[k] = c]
    ELSE c

Lower(s) == [k \in 1..Len(s) |-> LowerChar(s[k])]

\* s.translate(str.maketrans("", "", string.punctuation))
StripPunctuation(s) == SelectSeq(s, LAMBDA c : c \notin Punctuation)

\* re.sub(r" ", "-", s)
SpacesToHyphens(s) == [k \in 1..Len(s) |-> IF s[k] = " " THEN "-" ELSE s[k]]

\* mutant: re.search for re.match, the pattern found anywhere in s
ReSearchIgnoreCase(x, s) ==
    \E o \in 0..(Len(s) - Len(x)) :
        \A k \in 1..Len(x) : LowerChar(s[o + k]) = LowerChar(x[k])

\* bool(re.match(x, s, re.IGNORECASE)) for a pattern x of letters only:
\* the pattern is matched at the start of s
ReMatchIgnoreCase(x, s) ==
    /\ Len(x) <= Len(s)
    /\ \A k \in 1..Len(x) : LowerChar(s[k]) = LowerChar(x[k])

\* bool(re.match(prefix, s)) for a literal prefix
StartsWith(s, prefix) ==
    /\ Len(prefix) <= Len(s)
    /\ SubSeq(s, 1, Len(prefix)) = prefix

----------------------------------------------------------------------------
(* The pure functions of the program.                                      *)

sd_md5_prefix == <<"s","d","-","m","d","5","-">>

\* sd_md5_re.match(text)
sd_md5_match(text) == StartsWith(text, sd_md5_prefix)

\* sd_md5_re.sub("", text): the anchored prefix is removed when it is there
sd_md5_sub(text) ==
    IF sd_md5_match(text) THEN SubSeq(text, Len(sd_md5_prefix) + 1, Len(text)) ELSE text

xmltv_roles ==
    << <<"d","i","r","e","c","t","o","r">>,
       <<"a","c","t","o","r">>,
       <<"w","r","i","t","e","r">>,
       <<"a","d","a","p","t","e","r">>,
       <<"p","r","o","d","u","c","e","r">>,
       <<"c","o","m","p","o","s","e","r">>,
       <<"e","d","i","t","o","r">>,
       <<"p","r","e","s","e","n","t","e","r">>,
       <<"c","o","m","m","e","n","t","a","t","o","r">>,
       <<"g","u","e","s","t">> >>

role_normalized(role) == SpacesToHyphens(StripPunctuation(Lower(role)))

\* the first role of xmltv_roles that matches at the start of the normalized
\* role string, or None
role_to_xml(role) ==
    LET rn == role_normalized(role)
        hits == {k \in 1..Len(xmltv_roles) : ReMatchIgnoreCase(xmltv_roles[k], rn)}
    IN  IF hits = {} THEN None
        ELSE xmltv_roles[CHOOSE k \in hits : \A m \in hits : k <= m]

\* mutant: the numerator written as it is, not less one
episode_pair_one_based(gracenote, num, total) ==
    (IF num \in DOMAIN gracenote THEN str(gracenote[num]) ELSE <<>>)
    \o (IF total \in DOMAIN gracenote THEN <<"/">> \o str(gracenote[total]) ELSE <<>>)

\* one "numerator/total" pair of create_episode_num
episode_pair(gracenote, num, total) ==
    (IF num \in DOMAIN gracenote THEN str(gracenote[num] - 1) ELSE <<>>)
    \o (IF total \in DOMAIN gracenote THEN <<"/">> \o str(gracenote[total]) ELSE <<>>)

create_episode_num(gracenote) ==
    episode_pair(gracenote, "season", "totalSeasons") \o <<".">>
    \o episode_pair(gracenote, "episode", "totalEpisodes") \o <<".">>
    \o episode_pair(gracenote, "part", "totalParts")

\* mutant: the number of digits of n, len(str(n)), for the width
pgm_prec_digits(n) == Len(str(n))

\* pgm_prec = math.ceil(math.log10(max(1, len(self.api_programs_json))))
pgm_prec_of(n) == CeilLog10(Max(1, n))

\* f'{programID}.{count:0{prec}d}'
dd_progid(programID, count, prec) == programID \o <<".">> \o ZeroFill(count, prec)

----------------------------------------------------------------------------
(* XML elements (lxml.etree).                                              *)

Element(tag, attrib, text, children) ==
    [tag |-> tag, attrib |-> attrib, text |-> text, children |-> children]

----------------------------------------------------------------------------
(* What Schedules Direct serves.  The lineup is fixed; the schedules and   *)
(* the programs change between runs (ServerUpdate).                        *)

StationIDs == << <<"1","0">>, <<"2","0">> >>

\* /lineups/<lineup>: "map" in channel order, "stations" in another order;
\* one station has a logo and a broadcastLanguage, the other has neither
Lineup ==
    [map |-> << [stationID |-> StationIDs[1], channel |-> <<"0","0","2">>],
                [stationID |-> StationIDs[2], channel |-> <<"1","3">>] >>,
     stations |->
        << [stationID |-> StationIDs[2], name |-> <<"W","B">>, callsign |-> <<"W","B","T","V">>],
           [stationID |-> StationIDs[1], name |-> <<"P","B","S">>, callsign |-> <<"W","G","B","H">>,
            logo |-> [URL |-> <<"u">>, width |-> 120, height |-> 90],
            broadcastLanguage |-> << <<"e","n">> >>] >>]

EP1 == <<"E","P","1">>
SH2 == <<"S","H","2">>

\* /programs records.  They carry the keys titles, episodeTitle150, metadata,
\* cast, crew and new; none of the model's records has descriptions, movie,
\* originalAirDate, duration, genres, contentRating, videoProperties,
\* audioProperties, officialURL or isPremiereOrFinale.
ProgramRecords ==
    { [programID |-> EP1,
       titles |-> << [title120 |-> <<"N","e","w","s">>] >>,
       episodeTitle150 |-> <<"P","t","1">>,
       metadata |-> << [Gracenote |-> [season |-> 2, episode |-> 11, totalEpisodes |-> 12]] >>,
       cast |-> << [role |-> <<"A","c","t","o","r">>, name |-> <<"A","l">>,
                    characterName |-> <<"B","o">>],
                   [role |-> <<"G","u","e","s","t"," ","S","t","a","r">>, name |-> <<"C","y">>] >>,
       crew |-> << [role |-> <<"E","x","e","c","u","t","i","v","e"," ","P","r","o","d","u","c","e","r">>,
                    name |-> <<"D","i">>],
                   [role |-> <<"D","i","r","e","c","t","o","r"," ","o","f"," ","P","h","o","t","o","g","r","a","p","h","y">>,
                    name |-> <<"E","d">>] >>],
      [programID |-> SH2,
       titles |-> << [title120 |-> <<"Q","u","i","z">>] >>,
       new |-> TRUE] }

\* the airings served: a programID with the md5 of the listing; EP1 is served
\* under the md5 of its listing and under the md5 of a revised listing
Airings ==
    { [programID |-> EP1, md5 |-> <<"a","1">>],
      [programID |-> EP1, md5 |-> <<"a","3">>],
      [programID |-> SH2, md5 |-> <<"b","2">>] }

\* the programs arrays of a schedule object: up to max airings, one after
\* the other
ProgramsArrays(max) ==
    UNION { { [j \in 1..n |-> [programID |-> f[j].programID, md5 |-> f[j].md5,
                               airDateTime |-> 100 * j, duration |-> 30]]
              : f \in [1..n -> Airings] }
            : n \in 0..max }

\* /schedules: one object per station of the map, in map order; the first
\* with up to MaxSlots airings, the second with one less
Schedules ==
    { <<[stationID |-> Lineup.map[1].stationID, programs |-> p1],
        [stationID |-> Lineup.map[2].stationID, programs |-> p2]>>
      : p1 \in ProgramsArrays(MaxSlots), p2 \in ProgramsArrays(MaxSlots - 1) }

\* the server has a record for some of the programs
Servers ==
    { [schedules |-> s, programs |-> p] : s \in Schedules, p \in SUBSET ProgramRecords }

\* the orders in which a set may be listed (list(set(...)))
ListsOf(S) ==
    { f \in [1..Cardinality(S) -> S] : \A a, b \in 1..Cardinality(S) : f[a] = f[b] => a = b }

----------------------------------------------------------------------------
(* The xmltv file and the cache.                                           *)

NoFile == [exists |-> FALSE, root |-> <<>>]

\* xf.write(root): the file holds the tree of the <tv> element
WriteXml(children) == [exists |-> TRUE, root |-> children]

\* et.parse(file).getroot().iterchildren()
ParseXml(file) == file.root

EmptyCache == <<>>

RECURSIVE cache_keywords_last(_, _, _)
\* mutant: a later programme of the same md5 takes the place of the first
cache_keywords_last(child1, k, cache) ==
    IF k > Len(child1.children) THEN cache
    ELSE LET child2 == child1.children[k]
         IN  IF child2.tag = "keyword" /\ sd_md5_match(child2.text)
             THEN LET sd_md5 == sd_md5_sub(child2.text)
                  IN  cache_keywords_last(child1, k + 1,
                          [m \in DOMAIN cache \cup {sd_md5} |->
                              IF m = sd_md5 THEN child1 ELSE cache[m]])
             ELSE cache_keywords_last(child1, k + 1, cache)

RECURSIVE cache_keywords(_, _, _)
\* the loop over the keyword children of one programme, from child k on
cache_keywords(child1, k, cache) ==
    IF k > Len(child1.children) THEN cache
    ELSE LET child2 == child1.children[k]
         IN  IF child2.tag = "keyword" /\ sd_md5_match(child2.text)
             THEN LET sd_md5 == sd_md5_sub(child2.text)
                  IN  cache_keywords(child1, k + 1,
                          IF sd_md5 \in DOMAIN cache THEN cache
                          ELSE cache @@ (sd_md5 :> child1))
             ELSE cache_keywords(child1, k + 1, cache)

RECURSIVE cache_programmes(_, _, _)
\* the loop over the programme children of the root, from child k on
cache_programmes(children, k, cache) ==
    IF k > Len(children) THEN cache
    ELSE cache_programmes(children, k + 1,
             IF children[k].tag = "programme"
             THEN cache_keywords(children[k], 1, cache)
             ELSE cache)

load_xmltv_cache(file) ==
    IF ~file.exists THEN EmptyCache
    ELSE cache_programmes(ParseXml(file), 1, EmptyCache)

----------------------------------------------------------------------------
(* api_programs.                                                           *)

\* the schedule entries of a schedules response, as a set
ScheduleEntries(sched) ==
    UNION { {sched[i].programs[j] : j \in 1..Len(sched[i].programs)} : i \in 1..Len(sched) }

\* mutant: the programIDs of the entries whose md5 is cached
sd_programs_data_cached(resp_sched, cache) ==
    {p.programID : p \in {q \in ScheduleEntries(resp_sched) : q.md5 \in DOMAIN cache}}

\* the programIDs to request: those of the entries whose md5 is not cached
sd_programs_data(resp_sched, cache) ==
    {p.programID : p \in {q \in ScheduleEntries(resp_sched) : q.md5 \notin DOMAIN cache}}

\* the /programs response to a query: the records the server has, in query
\* order (a query of the model is shorter than max_programIDs: one block)
sd_api_programs(query) ==
    LET have == SelectSeq(query, LAMBDA id : \E r \in server.programs : r.programID = id)
    IN  [k \in 1..Len(have) |-> CHOOSE r \in server.programs : r.programID = have[k]]

----------------------------------------------------------------------------
(* api_xmltv.                                                              *)

LastIndex(seq, P(_)) == CHOOSE k \in 1..Len(seq) : P(seq[k]) /\ \A m \in (k + 1)..Len(seq) : ~P(seq[m])

\* stationID -> {"id": 'I{k}.{stationID}.schedulesdirect.org', "channel": str(int(channel))}
stationID_map_dict(cm) ==
    [sid \in {cm.map[k].stationID : k \in 1..Len(cm.map)} |->
        LET k == LastIndex(cm.map, LAMBDA m : m.stationID = sid)
        IN  [id |-> <<"I">> \o str(k - 1) \o <<".">> \o sid
                    \o <<".","s","c","h","e","d","u","l","e","s","d","i","r","e","c","t",".","o","r","g">>,
             channel |-> str(int(cm.map[k].channel))]]

\* stationID -> station
stationID_stn_dict(cm) ==
    [sid \in {cm.stations[k].stationID : k \in 1..Len(cm.stations)} |->
        cm.stations[LastIndex(cm.stations, LAMBDA t : t.stationID = sid)]]

\* programID -> index into api_programs_json
programID_dict(programs) ==
    [pid \in {programs[k].programID : k \in 1..Len(programs)} |->
        LastIndex(programs, LAMBDA r : r.programID = pid)]

\* the <channel> element of one station
channel_element(cm, stn) ==
    LET m == stationID_map_dict(cm)[stn.stationID]
    IN  Element("channel", {<<"id", m.id>>}, None,
            << Element("display-name", {}, m.channel \o <<" ">> \o stn.name, <<>>),
               Element("display-name", {}, stn.callsign, <<>>),
               Element("display-name", {}, m.channel, <<>>) >>
            \o (IF "logo" \in DOMAIN stn
                THEN << Element("icon", {<<"src", stn.logo.URL>>, <<"width", str(stn.logo.width)>>,
                                         <<"height", str(stn.logo.height)>>}, None, <<>>) >>
                ELSE <<>>))

channel_elements(cm) == [k \in 1..Len(cm.stations) |-> channel_element(cm, cm.stations[k])]

\* {"lang": broadcastLanguage[0]} of the station of a schedule object, or None
attrib_lang(cm, sid) ==
    LET stn == stationID_stn_dict(cm)[sid.stationID]
    IN  IF "broadcastLanguage" \in DOMAIN stn
        THEN {<<"lang", stn.broadcastLanguage[1]>>}
        ELSE {}

\* strftime("%Y%m%d%H%M%S %z") of an instant in the local time zone
strftime(instant) == str(instant)

\* start, stop and channel of the programme of a schedule entry
programme_attrib(cm, sid, sid_pgm) ==
    {<<"start", strftime(sid_pgm.airDateTime)>>,
     <<"stop", strftime(sid_pgm.airDateTime + sid_pgm.duration)>>,
     <<"channel", stationID_map_dict(cm)[sid.stationID].id>>}

\* mutant: the cached element is appended as it was cached
set_programme_attrib_not(programme, attribs) == programme

\* for ky in programme_attrib: programme.set(ky, programme_attrib[ky])
set_programme_attrib(programme, attribs) ==
    [programme EXCEPT !.attrib = {a \in @ : \A b \in attribs : b[1] # a[1]} \cup attribs]

\* the credit elements of a cast or crew list; with_character: the cast
credit_elements(people, with_character) ==
    LET listed == SelectSeq(people, LAMBDA c : role_to_xml(c.role) # None)
    IN  [k \in 1..Len(listed) |->
            LET role_xml == role_to_xml(listed[k].role)
            IN  Element(role_xml,
                    IF with_character /\ role_xml = xmltv_roles[2]
                       /\ "characterName" \in DOMAIN listed[k]
                    THEN {<<"role", listed[k].characterName>>} ELSE {},
                    listed[k].name, <<>>)]

\* mutant: the keyword is made of the programID, not of the md5
keyword_element_programID(sid_pgm) ==
    Element("keyword", {}, sd_md5_prefix \o sid_pgm.programID, <<>>)

\* the keyword child with the md5 of the schedule entry
keyword_element(sid_pgm) ==
    Element("keyword", {}, sd_md5_prefix \o sid_pgm.md5, <<>>)

\* the episode-num children: xmltv_ns when there is Gracenote metadata, and
\* dd_progid with the counter of the program
episode_num_elements(pgm, count, prec) ==
    (IF "metadata" \in DOMAIN pgm /\ "Gracenote" \in DOMAIN pgm.metadata[1]
     THEN << Element("episode-num", {<<"system", "xmltv_ns">>},
                     create_episode_num(pgm.metadata[1].Gracenote), <<>>) >>
     ELSE <<>>)
    \o << Element("episode-num", {<<"system", "dd_progid">>},
                  dd_progid(pgm.programID, count, prec), <<>>) >>

\* the programme element rendered from a program record
render_programme(attribs, lang, sid_pgm, pgm, count, prec) ==
    Element("programme", attribs, None,
        (IF "md5" \in DOMAIN sid_pgm THEN <<keyword_element(sid_pgm)>> ELSE <<>>)
        \o (IF "titles" \in DOMAIN pgm
            THEN LET ttls == SelectSeq(pgm.titles, LAMBDA t : "title120" \in DOMAIN t)
                 IN  [k \in 1..Len(ttls) |-> Element("title", lang, ttls[k].title120, <<>>)]
            ELSE <<>>)
        \o (IF "episodeTitle150" \in DOMAIN pgm
            THEN << Element("sub-title", lang, pgm.episodeTitle150, <<>>) >>
            ELSE <<>>)
        \o episode_num_elements(pgm, count, prec)
        \o (IF "cast" \in DOMAIN pgm \/ "crew" \in DOMAIN pgm
            THEN << Element("credits", {}, None,
                        (IF "cast" \in DOMAIN pgm THEN credit_elements(pgm.cast, TRUE) ELSE <<>>)
                        \o (IF "crew" \in DOMAIN pgm THEN credit_elements(pgm.crew, FALSE) ELSE <<>>)) >>
            ELSE <<>>)
        \o (IF "new" \in DOMAIN pgm THEN << Element("new", {}, None, <<>>) >> ELSE <<>>))

\* mutant: "or" for "and" in the condition
skip_condition_or(sid_pgm, cache, programs) ==
    \/ sid_pgm.md5 \notin DOMAIN cache
    \/ sid_pgm.programID \notin DOMAIN programID_dict(programs)

\* if md5 not in self.xmltv_cache and programID not in programID_dict: warn, continue
skip_condition(sid_pgm, cache, programs) ==
    /\ sid_pgm.md5 \notin DOMAIN cache
    /\ sid_pgm.programID \notin DOMAIN programID_dict(programs)

\* mutant: the counter is left as it is
increment_count_not(counts, programID) == counts

\* pgmid_counts[programID] += 1
increment_count(counts, programID) == [counts EXCEPT ![programID] = @ + 1]

\* mutant: root.insert(0, programme)
append_programme_first(children, programme) == <<programme>> \o children

\* mutant: the element appended is the cached element itself, not a copy:
\* the programmes appended for it before change with it
append_programme_alias(children, programme) ==
    [k \in 1..Len(children) |->
        IF children[k].tag = "programme" /\ children[k].children = programme.children
        THEN programme ELSE children[k]] \o <<programme>>

\* root.append(programme), et.SubElement(root, "programme", ...)
append_programme(children, programme) == Append(children, programme)

RECURSIVE FirstPos(_, _)
\* the first schedule entry of the objects from index i on, or <<Len + 1, 1>>
FirstPos(sched, i) ==
    IF i > Len(sched) THEN <<Len(sched) + 1, 1>>
    ELSE IF Len(sched[i].programs) >= 1 THEN <<i, 1>>
    ELSE FirstPos(sched, i + 1)

\* the schedule entry the two for loops visit after entry <<i, j>>
NextPos(sched, p) ==
    IF p[2] < Len(sched[p[1]].programs) THEN <<p[1], p[2] + 1>> ELSE FirstPos(sched, p[1] + 1)

AtEnd(sched, p) == p[1] > Len(sched)

----------------------------------------------------------------------------
(* The state machine.                                                      *)

NoUnit == [fn |-> "none", arg |-> <<>>, returned |-> FALSE, value |-> <<>>]
NoLog == [valid |-> FALSE, log |-> <<>>]
NoServer == [schedules |-> <<>>, programs |-> {}]

\* the memory of a process that is not running
ProcessGone ==
    /\ api_channel_mapping_json = <<>>
    /\ api_schedules_json = <<>>
    /\ api_programs_json = <<>>
    /\ xmltv_cache = EmptyCache
    /\ root = <<>>
    /\ pgmid_counts = <<>>
    /\ pgm_prec = 0
    /\ pos = <<1, 1>>
    /\ log = <<>>
    /\ warnings = 0

\* the process ends
ProcessExit ==
    /\ api_channel_mapping_json' = <<>>
    /\ api_schedules_json' = <<>>
    /\ api_programs_json' = <<>>
    /\ xmltv_cache' = EmptyCache
    /\ root' = <<>>
    /\ pgmid_counts' = <<>>
    /\ pgm_prec' = 0
    /\ pos' = <<1, 1>>
    /\ log' = <<>>
    /\ warnings' = 0

\* before the first run: no xmltv file yet
InitRun ==
    /\ pc = "idle"
    /\ runs = 0
    /\ server \in Servers
    /\ xmltv_file = NoFile
    /\ ProcessGone
    /\ prev_log = NoLog
    /\ unit = NoUnit

\* api_programs: api_schedules, load_xmltv_cache, then the programs of the
\* entries that are not cached, requested in the order of list(set(...))
api_programs ==
    /\ pc = "idle"
    /\ runs < MaxRuns
    /\ LET cache == load_xmltv_cache(xmltv_file)
       IN  /\ xmltv_cache' = cache
           /\ \E query \in ListsOf(sd_programs_data(server.schedules, cache)) :
                  api_programs_json' = sd_api_programs(query)
    /\ api_channel_mapping_json' = Lineup
    /\ api_schedules_json' = server.schedules
    /\ runs' = runs + 1
    /\ pc' = "xmltv"
    /\ UNCHANGED <<server, xmltv_file, root, pgmid_counts, pgm_prec, pos, log, prev_log,
                   warnings, unit>>

\* api_xmltv up to the loop over the schedules: the channel elements, the
\* counters and the width of the counter
api_xmltv_channels ==
    /\ pc = "xmltv"
    /\ root' = channel_elements(api_channel_mapping_json)
    /\ pgmid_counts' = [k \in DOMAIN programID_dict(api_programs_json) |-> 0]
    /\ pgm_prec' = pgm_prec_of(Len(api_programs_json))
    /\ pos' = FirstPos(api_schedules_json, 1)
    /\ pc' = IF AtEnd(api_schedules_json, pos') THEN "write" ELSE "slots"
    /\ UNCHANGED <<runs, server, xmltv_file, api_channel_mapping_json, api_schedules_json,
                   api_programs_json, xmltv_cache, log, prev_log, warnings, unit>>

\* the schedule object and the schedule entry of the current iteration
Sid == api_schedules_json[pos[1]]
SidPgm == Sid.programs[pos[2]]

\* the loops go on to the next entry
Continue ==
    /\ pos' = NextPos(api_schedules_json, pos)
    /\ pc' = IF AtEnd(api_schedules_json, pos') THEN "write" ELSE "slots"

LogEntry(outcome, at) ==
    [sched |-> pos[1], slot |-> pos[2], outcome |-> outcome, at |-> at]

\* neither cached nor fetched: a warning, and the entry is passed over
api_xmltv_skip ==
    /\ pc = "slots"
    /\ skip_condition(SidPgm, xmltv_cache, api_programs_json)
    /\ warnings' = warnings + 1
    /\ log' = Append(log, LogEntry("skipped", 0))
    /\ Continue
    /\ UNCHANGED <<runs, server, xmltv_file, api_channel_mapping_json, api_schedules_json,
                   api_programs_json, xmltv_cache, root, pgmid_counts, pgm_prec, prev_log,
                   unit>>

\* cached: the cached element gets this entry's start, stop and channel and
\* a copy of it is appended
api_xmltv_cached ==
    /\ pc = "slots"
    /\ ~skip_condition(SidPgm, xmltv_cache, api_programs_json)
    /\ SidPgm.md5 \in DOMAIN xmltv_cache
    /\ LET programme == set_programme_attrib(xmltv_cache[SidPgm.md5],
                            programme_attrib(api_channel_mapping_json, Sid, SidPgm))
       IN  /\ xmltv_cache' = [xmltv_cache EXCEPT ![SidPgm.md5] = programme]
           /\ root' = append_programme(root, programme)
    /\ log' = Append(log, LogEntry("cached", Len(root) + 1))
    /\ Continue
    /\ UNCHANGED <<runs, server, xmltv_file, api_channel_mapping_json, api_schedules_json,
                   api_programs_json, pgmid_counts, pgm_prec, prev_log, warnings, unit>>

\* not cached, fetched: the element is rendered from the program record and
\* the counter of the program goes up
api_xmltv_render ==
    /\ pc = "slots"
    /\ ~skip_condition(SidPgm, xmltv_cache, api_programs_json)
    /\ SidPgm.md5 \notin DOMAIN xmltv_cache
    /\ LET pgm == api_programs_json[programID_dict(api_programs_json)[SidPgm.programID]]
       IN  /\ root' = append_programme(root,
                  render_programme(programme_attrib(api_channel_mapping_json, Sid, SidPgm),
                                   attrib_lang(api_channel_mapping_json, Sid),
                                   SidPgm, pgm, pgmid_counts[pgm.programID], pgm_prec))
           /\ pgmid_counts' = increment_count(pgmid_counts, pgm.programID)
    /\ log' = Append(log, LogEntry("rendered", Len(root) + 1))
    /\ Continue
    /\ UNCHANGED <<runs, server, xmltv_file, api_channel_mapping_json, api_schedules_json,
                   api_programs_json, xmltv_cache, pgm_prec, prev_log, warnings, unit>>

\* the file is written and the process ends
api_xmltv_write ==
    /\ pc = "write"
    /\ xmltv_file' = WriteXml(root)
    /\ prev_log' = [valid |-> TRUE, log |-> log]
    /\ pc' = "idle"
    /\ ProcessExit
    /\ UNCHANGED <<runs, server, unit>>

\* between two runs the schedules and programs of the server change
ServerUpdate ==
    /\ pc = "idle"
    /\ runs >= 1
    /\ runs < MaxRuns
    /\ prev_log.valid
    /\ server' \in Servers \ {server}
    /\ prev_log' = NoLog
    /\ UNCHANGED <<pc, runs, xmltv_file, api_channel_mapping_json, api_schedules_json,
                   api_programs_json, xmltv_cache, root, pgmid_counts, pgm_prec, pos, log,
                   warnings, unit>>

----------------------------------------------------------------------------
(* Calls of the pure functions on their own.                               *)

RoleStrings ==
    { <<"E","x","e","c","u","t","i","v","e"," ","P","r","o","d","u","c","e","r">>,
      <<"D","i","r","e","c","t","o","r"," ","o","f"," ","P","h","o","t","o","g","r","a","p","h","y">>,
      <<"K","e","y"," ","G","r","i","p">>,
      <<"A","c","t","o","r">>,
      <<"G","u","e","s","t"," ","S","t","a","r">>,
      <<"C","o","-","P","r","o","d","u","c","e","r">>,
      <<"W","r","i","t","e","r"," ","(","S","t","o","r","y",")">>,
      <<"P","R","O","D","U","C","E","R">> }

GracenoteKeys == {"season", "totalSeasons", "episode", "totalEpisodes", "part", "totalParts"}
GracenoteValues == {0, 1, 12}
Gracenotes == UNION { [K -> GracenoteValues] : K \in SUBSET GracenoteKeys }

EP012345670001 == <<"E","P","0","1","2","3","4","5","6","7","0","0","0","1">>
ProgramCounts == {0, 1, 2, 9, 10, 11, 100, 101, 1000, 1001}
DdProgidArgs ==
    { [programID |-> p, count |-> c, programs |-> n]
      : p \in {EP012345670001, EP1}, c \in 0..MaxCount, n \in ProgramCounts }

\* elements of an xmltv file that this or another program wrote: a channel,
\* programmes with the keyword of an md5 (two of the same md5, one of two
\* md5s), programmes with other keywords or none
Keyword(text) == Element("keyword", {}, text, <<>>)
Title(text) == Element("title", {}, text, <<>>)
XmltvElements ==
    { Element("channel", {<<"id", <<"1">>>>}, None,
              <<Keyword(sd_md5_prefix \o <<"a","1">>)>>),
      Element("programme", {<<"start", <<"1">>>>, <<"channel", <<"1">>>>}, None,
              <<Keyword(sd_md5_prefix \o <<"a","1">>), Title(<<"x">>)>>),
      Element("programme", {<<"start", <<"2">>>>, <<"channel", <<"1">>>>}, None,
              <<Title(<<"y">>), Keyword(sd_md5_prefix \o <<"a","1">>)>>),
      Element("programme", {<<"start", <<"3">>>>, <<"channel", <<"1">>>>}, None,
              <<Keyword(sd_md5_prefix \o <<"b","2">>), Keyword(sd_md5_prefix \o <<"a","1">>)>>),
      Element("programme", {<<"start", <<"4">>>>, <<"channel", <<"1">>>>}, None,
              <<Keyword(<<"s","p","o","r","t","s">>), Keyword(<<"x">> \o sd_md5_prefix \o <<"a","1">>)>>),
      Element("programme", {<<"start", <<"5">>>>, <<"channel", <<"1">>>>}, None, <<>>) }

\* no file, or a file of up to MaxDoc elements
XmltvFiles ==
    {NoFile} \cup
    UNION { {WriteXml(doc) : doc \in [1..n -> XmltvElements]} : n \in 0..MaxDoc }

InitUnit ==
    /\ pc = "unit"
    /\ runs = 0
    /\ server = NoServer
    /\ xmltv_file = NoFile
    /\ ProcessGone
    /\ prev_log = NoLog
    /\ \/ \E role \in RoleStrings :
              unit = [fn |-> "role_to_xml", arg |-> role, returned |-> FALSE, value |-> <<>>]
       \/ \E g \in Gracenotes :
              unit = [fn |-> "create_episode_num", arg |-> g, returned |-> FALSE, value |-> <<>>]
       \/ \E a \in DdProgidArgs :
              unit = [fn |-> "dd_progid", arg |-> a, returned |-> FALSE, value |-> <<>>]
       \/ \E file \in XmltvFiles :
              unit = [fn |-> "load_xmltv_cache", arg |-> file, returned |-> FALSE,
                      value |-> <<>>]

Return(value) ==
    /\ unit' = [unit EXCEPT !.returned = TRUE, !.value = value]
    /\ UNCHANGED <<pc, runs, server, xmltv_file, api_channel_mapping_json, api_schedules_json,
                   api_programs_json, xmltv_cache, root, pgmid_counts, pgm_prec, pos, log,
                   prev_log, warnings>>

call_role_to_xml ==
    /\ pc = "unit" /\ unit.fn = "role_to_xml" /\ ~unit.returned
    /\ Return(role_to_xml(unit.arg))

call_create_episode_num ==
    /\ pc = "unit" /\ unit.fn = "create_episode_num" /\ ~unit.returned
    /\ Return(create_episode_num(unit.arg))

call_dd_progid ==
    /\ pc = "unit" /\ unit.fn = "dd_progid" /\ ~unit.returned
    /\ Return(dd_progid(unit.arg.programID, unit.arg.count, pgm_prec_of(unit.arg.programs)))

call_load_xmltv_cache ==
    /\ pc = "unit" /\ unit.fn = "load_xmltv_cache" /\ ~unit.returned
    /\ Return(load_xmltv_cache(unit.arg))

----------------------------------------------------------------------------

Init == InitRun \/ InitUnit

Next ==
    \/ api_programs
    \/ api_xmltv_channels
    \/ api_xmltv_skip
    \/ api_xmltv_cached
    \/ api_xmltv_render
    \/ api_xmltv_write
    \/ ServerUpdate
    \/ call_role_to_xml
    \/ call_create_episode_num
    \/ call_dd_progid
    \/ call_load_xmltv_cache

Spec == Init /\ [][Next]_vars

----------------------------------------------------------------------------
(* What the properties below speak of.                                     *)

\* elem.get(key), for a key the element has
GetAttrib(elem, key) == (CHOOSE a \in elem.attrib : a[1] = key)[2]

\* the attributes other than start, stop and channel
OtherAttrib(elem) == {a \in elem.attrib : a[1] \notin {"start", "stop", "channel"}}

\* the body of a programme: what the timing and channel attributes leave
Body(elem) == [attrib |-> OtherAttrib(elem), text |-> elem.text, children |-> elem.children]

Programmes(children) == SelectSeq(children, LAMBDA c : c.tag = "programme")

\* the texts of the keyword children of a programme
Keywords(elem) ==
    LET kw == SelectSeq(elem.children, LAMBDA c : c.tag = "keyword")
    IN  [k \in 1..Len(kw) |-> kw[k].text]

\* the texts of the episode-num children of a programme with this system
EpisodeNums(elem, system) ==
    LET en == SelectSeq(elem.children,
                  LAMBDA c : c.tag = "episode-num" /\ <<"system", system>> \in c.attrib)
    IN  [k \in 1..Len(en) |-> en[k].text]

RECURSIVE PositionsFrom(_, _)
PositionsFrom(sched, i) ==
    IF i > Len(sched) THEN <<>>
    ELSE [j \in 1..Len(sched[i].programs) |-> <<i, j>>] \o PositionsFrom(sched, i + 1)

\* the schedule entries in the order met: objects in order, entries in order
Positions(sched) == PositionsFrom(sched, 1)

Before(p, q) == p[1] < q[1] \/ (p[1] = q[1] /\ p[2] < q[2])

InRun == pc \in {"slots", "write"}

\* the entries the loops have been through
Visited ==
    IF pc = "write" THEN Positions(api_schedules_json)
    ELSE IF pc = "slots"
         THEN SelectSeq(Positions(api_schedules_json), LAMBDA p : Before(p, pos))
         ELSE <<>>

SlotAt(p) == api_schedules_json[p[1]].programs[p[2]]
LogPos(e) == <<e.sched, e.slot>>

\* the programIDs of the fetched program records
Fetched == {api_programs_json[k].programID : k \in 1..Len(api_programs_json)}

\* neither cached nor fetched
Unresolvable(p) ==
    SlotAt(p).md5 \notin DOMAIN xmltv_cache /\ SlotAt(p).programID \notin Fetched

Emitted(l) == {k \in 1..Len(l) : l[k].outcome # "skipped"}
Rendered(l) == {k \in 1..Len(l) : l[k].outcome = "rendered"}
Cached(l) == {k \in 1..Len(l) : l[k].outcome = "cached"}

\* the element has the start, stop and channel of entry p of a schedule
HasAttribsOf(elem, cm, sched, p) ==
    /\ elem.tag = "programme"
    /\ {a \in elem.attrib : a[1] \in {"start", "stop", "channel"}}
           = programme_attrib(cm, sched[p[1]], sched[p[1]].programs[p[2]])

\* the element has the start, stop and channel of the schedule entry at p
HasSlotAttribs(elem, p) ==
    HasAttribsOf(elem, api_channel_mapping_json, api_schedules_json, p)

\* the first programme of a document that carries the keyword of this md5
FirstWithMd5(children, md5) ==
    LET ps == Programmes(children)
        has == {k \in 1..Len(ps) : \E t \in 1..Len(Keywords(ps[k])) :
                    Keywords(ps[k])[t] = sd_md5_prefix \o md5}
    IN  ps[CHOOSE k \in has : \A m \in has : k <= m]

----------------------------------------------------------------------------
C2_Step ==
    (pc = "slots" /\ SidPgm.md5 \in DOMAIN xmltv_cache) =>
        LET cached == xmltv_cache[SidPgm.md5]
            elem == root'[Len(root')]
        IN  /\ Len(root') = Len(root) + 1
            /\ SubSeq(root', 1, Len(root)) = root
            /\ elem.children = cached.children
            /\ elem.text = cached.text
            /\ OtherAttrib(elem) = OtherAttrib(cached)
            /\ elem.children = FirstWithMd5(xmltv_file.root, SidPgm.md5).children
            /\ HasSlotAttribs(elem, pos)
            /\ pgmid_counts' = pgmid_counts
            /\ api_programs_json' = api_programs_json
            /\ warnings' = warnings

C2_CacheHitEquivalence == [][C2_Step]_vars

\* a cache hit on an entry whose program has a fetched record, that moved
\* the cached element to another channel and another start
C2_Witness ==
    /\ InRun
    /\ \E k \in Cached(log) :
           LET was == FirstWithMd5(xmltv_file.root, SlotAt(LogPos(log[k])).md5)
           IN  /\ SlotAt(LogPos(log[k])).programID \in Fetched
               /\ GetAttrib(root[log[k].at], "channel") # GetAttrib(was, "channel")
               /\ GetAttrib(root[log[k].at], "start") # GetAttrib(was, "start")

C4_Inv ==
    InRun =>
        /\ Len(log) = Len(Visited)
        /\ \A k \in 1..Len(log) :
               /\ LogPos(log[k]) = Visited[k]
               /\ (log[k].outcome = "skipped") <=> Unresolvable(Visited[k])
               /\ log[k].outcome # "skipped" =>
                      /\ log[k].at \in 1..Len(root)
                      /\ HasSlotAttribs(root[log[k].at], Visited[k])
        /\ warnings = Len(log) - Cardinality(Emitted(log))
        /\ Len(Programmes(root)) = Cardinality(Emitted(log))
        /\ (pc = "slots" /\ ~Unresolvable(pos) /\ SidPgm.md5 \notin DOMAIN xmltv_cache) =>
               /\ SidPgm.programID \in DOMAIN programID_dict(api_programs_json)
               /\ programID_dict(api_programs_json)[SidPgm.programID] \in 1..Len(api_programs_json)
               /\ api_programs_json[programID_dict(api_programs_json)[SidPgm.programID]].programID
                      = SidPgm.programID

C4_Step ==
    (pc = "slots" /\ Unresolvable(pos)) =>
        /\ root' = root
        /\ pgmid_counts' = pgmid_counts
        /\ warnings' = warnings + 1

DdCounter(elem, programID) ==
    LET text == EpisodeNums(elem, "dd_progid")[1]
    IN  int(SubSeq(text, Len(programID) + 2, Len(text)))

(* C5.  The counters start at 0 for every fetched programID; rendering an  *)
(* entry adds 1 to the counter of its programID and leaves the others; a   *)
(* cache hit or a skip leaves them all; the k-th rendering (from 0) of a   *)
(* programID carries the counter k.                                        *)
C5_Inv ==
    InRun =>
        /\ DOMAIN pgmid_counts = Fetched
        /\ \A k \in Rendered(log) :
               LET programID == SlotAt(LogPos(log[k])).programID
               IN  DdCounter(root[log[k].at], programID)
                       = Cardinality({m \in Rendered(log) :
                             m < k /\ SlotAt(LogPos(log[m])).programID = programID})

C5_Step ==
    /\ pc = "xmltv" =>
           /\ DOMAIN pgmid_counts' = Fetched
           /\ \A q \in Fetched : pgmid_counts'[q] = 0
    /\ pc = "slots" =>
           LET fresh == SidPgm.md5 \notin DOMAIN xmltv_cache /\ SidPgm.programID \in Fetched
           IN  /\ DOMAIN pgmid_counts' = DOMAIN pgmid_counts
               /\ \A q \in DOMAIN pgmid_counts :
                      pgmid_counts'[q] =
                          pgmid_counts[q] + (IF fresh /\ q = SidPgm.programID THEN 1 ELSE 0)

C5_CounterPolicy == []C5_Inv /\ [][C5_Step]_vars

\* a run that rendered one program twice, with a cache hit on an entry of
\* the same program in between
C5_Witness ==
    /\ pc = "write"
    /\ \E a, b, c \in 1..Len(log) :
           /\ a < b /\ b < c
           /\ log[a].outcome = "rendered"
           /\ log[b].outcome = "cached"
           /\ log[c].outcome = "rendered"
           /\ SlotAt(LogPos(log[a])).programID = SlotAt(LogPos(log[b])).programID
           /\ SlotAt(LogPos(log[a])).programID = SlotAt(LogPos(log[c])).programID
           /\ pgmid_counts[SlotAt(LogPos(log[a])).programID] = 2

\* the channel elements of a document are those of the stations, in the
\* order of the stations, and its programmes follow, one for each entry of
\* kept, in that order, each naming the channel element of its station
ShapeOf(children, cm, sched, kept) ==
    LET n == Len(cm.stations)
    IN  /\ Len(children) = n + Len(kept)
        /\ \A k \in 1..n :
               /\ children[k].tag = "channel"
               /\ children[k].children[2].text = cm.stations[k].callsign
        /\ \A k \in 1..Len(kept) :
               /\ HasAttribsOf(children[n + k], cm, sched, kept[k])
               /\ \E c \in 1..n :
                      /\ cm.stations[c].stationID = sched[kept[k][1]].stationID
                      /\ GetAttrib(children[c], "id") = GetAttrib(children[n + k], "channel")

\* the entries of a log that were not skipped, as schedule positions
KeptOf(l) ==
    LET kept == SelectSeq(l, LAMBDA e : e.outcome # "skipped")
    IN  [k \in 1..Len(kept) |-> LogPos(kept[k])]

(* C6.  The document is the channel elements of the stations, in the       *)
(* order of the stations, then one programme per entry that is not         *)
(* skipped, in the order the entries are met; so is the written file.      *)
C6_OutputShapeAndOrder ==
    /\ InRun =>
           ShapeOf(root, api_channel_mapping_json, api_schedules_json,
                   SelectSeq(Visited, LAMBDA p : ~Unresolvable(p)))
    /\ (pc = "idle" /\ prev_log.valid) =>
           /\ xmltv_file.exists
           /\ Len(prev_log.log) = Len(Positions(server.schedules))
           /\ \A k \in 1..Len(prev_log.log) :
                  LogPos(prev_log.log[k]) = Positions(server.schedules)[k]
           /\ ShapeOf(xmltv_file.root, Lineup, server.schedules, KeptOf(prev_log.log))

\* a written file with a rendered programme, then a skipped entry, then a
\* cache hit, then a rendered programme on the other station
C6_Witness ==
    /\ pc = "idle" /\ prev_log.valid
    /\ Len(prev_log.log) = 3
    /\ prev_log.log[1].outcome = "cached"
    /\ prev_log.log[2].outcome = "skipped"
    /\ prev_log.log[3].outcome = "rendered"
    /\ prev_log.log[3].sched = 2

(* C7.  Every programme of a document carries exactly one keyword, the     *)
(* prefix sd-md5- followed by the md5 of the entry it was emitted for:     *)
(* in the document being built, for rendered and for cached programmes,    *)
(* and in every file a run has written.                                    *)
C7_OneCacheKeyword ==
    /\ InRun =>
           \A k \in Emitted(log) :
               Keywords(root[log[k].at]) = << sd_md5_prefix \o SlotAt(LogPos(log[k])).md5 >>
    /\ \A k \in 1..Len(xmltv_file.root) :
           xmltv_file.root[k].tag = "programme" =>
               /\ Len(Keywords(xmltv_file.root[k])) = 1
               /\ sd_md5_match(Keywords(xmltv_file.root[k])[1])
    /\ (pc = "idle" /\ prev_log.valid) =>
           \A k \in Emitted(prev_log.log) :
               LET p == LogPos(prev_log.log[k])
               IN  Keywords(xmltv_file.root[prev_log.log[k].at])
                       = << sd_md5_prefix \o server.schedules[p[1]].programs[p[2]].md5 >>

\* a third run: a cache hit on an element that was itself a cache hit of
\* the run before, which had rendered another entry
C7_Witness ==
    /\ pc = "write" /\ prev_log.valid
    /\ \E k \in Cached(log) : prev_log.log[k].outcome = "cached"
    /\ Rendered(prev_log.log) # {}

ExecutiveProducer == <<"E","x","e","c","u","t","i","v","e"," ","P","r","o","d","u","c","e","r">>
DirectorOfPhotography == <<"D","i","r","e","c","t","o","r"," ","o","f"," ","P","h","o","t","o","g","r","a","p","h","y">>
KeyGrip == <<"K","e","y"," ","G","r","i","p">>
Director == <<"d","i","r","e","c","t","o","r">>
Producer == <<"p","r","o","d","u","c","e","r">>

RoleReturned == pc = "unit" /\ unit.fn = "role_to_xml" /\ unit.returned

(* C8 as stated.  role_to_xml gives producer for "Executive Producer",     *)
(* director for "Director of Photography" and nothing for "Key Grip".      *)
C8_AsStated ==
    RoleReturned =>
        /\ unit.arg = ExecutiveProducer => unit.value = Producer
        /\ unit.arg = DirectorOfPhotography => unit.value = Director
        /\ unit.arg = KeyGrip => unit.value = None

\* the tags and texts of the credits of a programme
Credits(elem) ==
    LET cr == SelectSeq(elem.children, LAMBDA c : c.tag = "credits")
    IN  [k \in 1..Len(cr[1].children) |-> <<cr[1].children[k].tag, cr[1].children[k].text>>]

(* C8.  role_to_xml gives nothing for "Executive Producer" (the match is   *)
(* at the start of the role string), director for "Director of             *)
(* Photography" and nothing for "Key Grip"; a programme rendered from a    *)
(* record with these two crew members credits the second only.             *)
C8_RoleClassification ==
    /\ RoleReturned =>
           /\ unit.arg = ExecutiveProducer => unit.value = None
           /\ unit.arg = DirectorOfPhotography => unit.value = Director
           /\ unit.arg = KeyGrip => unit.value = None
    /\ InRun =>
           \A k \in Rendered(log) :
               SlotAt(LogPos(log[k])).programID = EP1 =>
                   Credits(root[log[k].at])
                       = << <<xmltv_roles[2], <<"A","l">> >>, <<xmltv_roles[10], <<"C","y">> >>,
                            <<Director, <<"E","d">> >> >>

C8_Witness == RoleReturned /\ unit.arg = ExecutiveProducer

\* the places of a character in a string
Places(s, c) == {k \in 1..Len(s) : s[k] = c}

IsDigits(s) == Len(s) >= 1 /\ \A k \in 1..Len(s) : \E d \in 1..10 : DigitChars[d] = s[k]

\* a decimal numeral, with its sign, reads as n
Reads(s, n) ==
    /\ Len(s) >= 1
    /\ IF s[1] = "-"
       THEN IsDigits(Tail(s)) /\ 0 - int(Tail(s)) = n
       ELSE IsDigits(s) /\ int(s) = n

\* a segment of an episode number: the numerator less one when there is
\* one, "/" and the total when there is one, and nothing else
SegmentReads(seg, gracenote, num, total) ==
    LET slash == Places(seg, "/")
        upto == IF slash = {} THEN Len(seg) ELSE (CHOOSE k \in slash : TRUE) - 1
        numerator == SubSeq(seg, 1, upto)
    IN  /\ Cardinality(slash) = (IF total \in DOMAIN gracenote THEN 1 ELSE 0)
        /\ IF num \in DOMAIN gracenote
           THEN Reads(numerator, gracenote[num] - 1)
           ELSE numerator = <<>>
        /\ total \in DOMAIN gracenote =>
               Reads(SubSeq(seg, upto + 2, Len(seg)), gracenote[total])

\* an episode number: three segments, season, episode and part, between
\* exactly two dots
EpisodeNumReads(s, gracenote) ==
    LET dots == Places(s, ".")
    IN  /\ Cardinality(dots) = 2
        /\ LET d1 == CHOOSE k \in dots : \A m \in dots : k <= m
               d2 == CHOOSE k \in dots : \A m \in dots : k >= m
           IN  /\ SegmentReads(SubSeq(s, 1, d1 - 1), gracenote, "season", "totalSeasons")
               /\ SegmentReads(SubSeq(s, d1 + 1, d2 - 1), gracenote, "episode", "totalEpisodes")
               /\ SegmentReads(SubSeq(s, d2 + 1, Len(s)), gracenote, "part", "totalParts")

EpisodeReturned == pc = "unit" /\ unit.fn = "create_episode_num" /\ unit.returned

FirstOfFirst == [season |-> 1, totalSeasons |-> 1, episode |-> 1, totalEpisodes |-> 1]

(* C9.  create_episode_num gives season, episode and part between exactly  *)
(* two dots, a value v as v - 1 and a total t as /t after it; season 1 of  *)
(* 1, episode 1 of 1, no part gives "0/1.0/1."; and a programme rendered   *)
(* from a record with Gracenote metadata carries that string as its        *)
(* xmltv_ns episode number.                                                *)
C9_StructuredEpisodeNum ==
    /\ EpisodeReturned =>
           /\ EpisodeNumReads(unit.value, unit.arg)
           /\ unit.arg = FirstOfFirst => unit.value = <<"0","/","1",".","0","/","1",".">>
    /\ InRun =>
           \A k \in Rendered(log) :
               LET pgm == CHOOSE r \in ProgramRecords :
                              r.programID = SlotAt(LogPos(log[k])).programID
                   nums == EpisodeNums(root[log[k].at], "xmltv_ns")
               IN  IF "metadata" \in DOMAIN pgm
                   THEN Len(nums) = 1 /\ EpisodeNumReads(nums[1], pgm.metadata[1].Gracenote)
                   ELSE nums = <<>>

C9_Witness == EpisodeReturned /\ unit.arg = FirstOfFirst

RECURSIVE Pow10(_)
Pow10(w) == IF w = 0 THEN 1 ELSE 10 * Pow10(w - 1)

\* the least w with 10^w >= max(1, n): ceil(log10(max(1, n)))
Width(n) == CHOOSE w \in 0..9 : Pow10(w) >= Max(1, n) /\ \A v \in 0..(w - 1) : Pow10(v) < Max(1, n)

\* the number of decimal digits of n >= 0
DigitsOf(n) == CHOOSE d \in 1..9 : Pow10(d) > n /\ \A v \in 1..(d - 1) : Pow10(v) <= n

\* text is programID, a dot, and count in decimal, zero-filled to the width
\* for n program records and never cut
DdProgidReads(text, programID, count, n) ==
    LET digits == SubSeq(text, Len(programID) + 2, Len(text))
    IN  /\ StartsWith(text, programID \o <<".">>)
        /\ IsDigits(digits)
        /\ int(digits) = count
        /\ Len(digits) = Max(Width(n), DigitsOf(count))

DdProgidReturned == pc = "unit" /\ unit.fn = "dd_progid" /\ unit.returned

ThirdOfThousand == [programID |-> EP012345670001, count |-> 2, programs |-> 1000]

(* C10.  The dd_progid entry is the programID, a dot and the counter,      *)
(* zero-filled to ceil(log10(max(1, N))) digits for N program records and  *)
(* written in full when it has more digits; counter 2 of EP012345670001    *)
(* with 1000 records gives "EP012345670001.002"; every rendered programme  *)
(* carries one such entry, with the counter of its programID.              *)
C10_FallbackEpisodeNum ==
    /\ DdProgidReturned =>
           /\ DdProgidReads(unit.value, unit.arg.programID, unit.arg.count, unit.arg.programs)
           /\ unit.arg = ThirdOfThousand =>
                  unit.value = <<"E","P","0","1","2","3","4","5","6","7","0","0","0","1",".","0","0","2">>
    /\ InRun =>
           \A k \in Rendered(log) :
               LET programID == SlotAt(LogPos(log[k])).programID
                   nums == EpisodeNums(root[log[k].at], "dd_progid")
               IN  /\ Len(nums) = 1
                   /\ DdProgidReads(nums[1], programID,
                          Cardinality({m \in Rendered(log) :
                              m < k /\ SlotAt(LogPos(log[m])).programID = programID}),
                          Len(api_programs_json))

C10_Witness == DdProgidReturned /\ unit.arg = ThirdOfThousand

----------------------------------------------------------------------------
----------------------------------------------------------------------------
\* the programIDs the server has a record for
Served == {r.programID : r \in server.programs}

(* C12.  A run that finds no xmltv file: the cache is empty, the records   *)
(* of all the programs of the schedules that the server has are fetched,   *)
(* every entry with a fetched record is rendered (and no entry is a cache  *)
(* hit), the others are skipped with a warning each, and the run ends by   *)
(* writing the file with what it rendered.                                 *)
C12_Inv ==
    (~xmltv_file.exists /\ pc \in {"xmltv", "slots", "write"}) =>
        /\ DOMAIN xmltv_cache = {}
        /\ Fetched = {p.programID : p \in ScheduleEntries(server.schedules)} \cap Served
        /\ Len(log) = Len(Visited)
        /\ \A k \in 1..Len(log) :
               /\ LogPos(log[k]) = Visited[k]
               /\ log[k].outcome =
                      IF SlotAt(Visited[k]).programID \in Served THEN "rendered" ELSE "skipped"
        /\ warnings = Len(log) - Cardinality(Rendered(log))

C12_Step ==
    /\ (~xmltv_file.exists /\ pc = "idle" /\ pc' # "idle") =>
           pc' = "xmltv" /\ DOMAIN xmltv_cache' = {}
    /\ (~xmltv_file.exists /\ pc = "write") =>
           /\ pc' = "idle"
           /\ xmltv_file'.exists
           /\ xmltv_file'.root = root
           /\ Len(Programmes(root)) = Cardinality(Rendered(log))

----------------------------------------------------------------------------
\* the three segments of an episode number with exactly two dots
Segments(s) ==
    LET dots == Places(s, ".")
        d1 == CHOOSE k \in dots : \A m \in dots : k <= m
        d2 == CHOOSE k \in dots : \A m \in dots : k >= m
    IN  <<SubSeq(s, 1, d1 - 1), SubSeq(s, d1 + 1, d2 - 1), SubSeq(s, d2 + 1, Len(s))>>

GracenotePairs == <<<<"season", "totalSeasons">>, <<"episode", "totalEpisodes">>,
                    <<"part", "totalParts">>>>

(* C13.  create_episode_num, when season, episode or part is absent and    *)
(* its total is present, writes nothing for that segment, not even the     *)
(* "/total"; the two dots and the other segments are written as usual.     *)
C13_MissingNumerator ==
    EpisodeReturned =>
        /\ Cardinality(Places(unit.value, ".")) = 2
        /\ \A k \in 1..3 :
               LET num == GracenotePairs[k][1]
                   total == GracenotePairs[k][2]
               IN  IF num \notin DOMAIN unit.arg /\ total \in DOMAIN unit.arg
                   THEN Segments(unit.value)[k] = <<>>
                   ELSE SegmentReads(Segments(unit.value)[k], unit.arg, num, total)

----------------------------------------------------------------------------
\* the element is a programme with a keyword child made of the prefix and md5
CarriesMd5(elem, md5) ==
    /\ elem.tag = "programme"
    /\ \E j \in 1..Len(elem.children) :
           elem.children[j].tag = "keyword" /\ elem.children[j].text = sd_md5_prefix \o md5

\* the md5s of the keyword children of a programme that begin with the prefix
Md5sOf(elem) ==
    IF elem.tag # "programme" THEN {}
    ELSE { SubSeq(elem.children[j].text, Len(sd_md5_prefix) + 1, Len(elem.children[j].text))
           : j \in { i \in 1..Len(elem.children) :
                       /\ elem.children[i].tag = "keyword"
                       /\ StartsWith(elem.children[i].text, sd_md5_prefix) } }

\* the cache is the index of the document: its keys are the md5s carried
\* by programmes and each entry equals the first programme carrying the key
IndexOf(children, cache) ==
    /\ DOMAIN cache = UNION {Md5sOf(children[k]) : k \in 1..Len(children)}
    /\ \A md5 \in DOMAIN cache :
           LET has == {k \in 1..Len(children) : CarriesMd5(children[k], md5)}
           IN  /\ has # {}
               /\ cache[md5] = children[CHOOSE k \in has : \A m \in has : k <= m]
    /\ \A k \in 1..Len(children) :
           Md5sOf(children[k]) = {} => \A md5 \in DOMAIN cache : cache[md5] # children[k]

IndexOfFile(file, cache) ==
    IF file.exists THEN IndexOf(file.root, cache) ELSE DOMAIN cache = {}

LoadReturned == pc = "unit" /\ unit.fn = "load_xmltv_cache" /\ unit.returned

(* C14.  load_xmltv_cache returns a cache whose keys are exactly the md5s  *)
(* of the sd-md5- keywords of the programmes of the file, each entry equal *)
(* to the first programme of the file with that md5; a programme without   *)
(* such a keyword is no entry; and the file is left as it was, by the load *)
(* and by the run's later writes to the entries of the cache.              *)
C14_Inv ==
    /\ LoadReturned => IndexOfFile(unit.arg, unit.value)
    /\ pc = "xmltv" => IndexOfFile(xmltv_file, xmltv_cache)

C14_Step ==
    /\ (pc = "unit" /\ unit.fn = "load_xmltv_cache") => unit'.arg = unit.arg
    /\ pc \in {"idle", "xmltv", "slots"} => xmltv_file' = xmltv_file

C14_CacheLoad == []C14_Inv /\ [][C14_Step]_vars

\* a file with two different programmes of one md5 and a programme without
\* the keyword of any md5 has been loaded
C14_Witness ==
    /\ LoadReturned
    /\ unit.arg.exists
    /\ \E i, j, k \in 1..Len(unit.arg.root) :
           /\ i < j
           /\ CarriesMd5(unit.arg.root[i], <<"a","1">>)
           /\ CarriesMd5(unit.arg.root[j], <<"a","1">>)
           /\ unit.arg.root[i] # unit.arg.root[j]
           /\ k < i
           /\ unit.arg.root[k].tag = "programme"
           /\ Md5sOf(unit.arg.root[k]) = {}
           /\ unit.value[<<"a","1">>] = unit.arg.root[i]

----------------------------------------------------------------------------
(* C15.  Every programme appended for a cache hit has, in every later      *)
(* state of the run and in the file written, the start, stop and channel   *)
(* of its own schedule entry, also when later entries hit the same cache   *)
(* entry: a step of the loop changes no element appended before it.        *)
C15_Inv ==
    InRun => \A k \in Cached(log) : HasSlotAttribs(root[log[k].at], LogPos(log[k]))

C15_Step ==
    /\ pc = "slots" => SubSeq(root', 1, Len(root)) = root
    /\ pc = "write" => xmltv_file'.root = root

C15_NoAliasing == []C15_Inv /\ [][C15_Step]_vars

\* at the end of a run, two entries with different start or channel have
\* hit the same cache entry
C15_Witness ==
    /\ pc = "write"
    /\ \E a, b \in Cached(log) :
           /\ a < b
           /\ SlotAt(LogPos(log[a])).md5 = SlotAt(LogPos(log[b])).md5
           /\ GetAttrib(root[log[a].at], "start") # GetAttrib(root[log[b].at], "start")
           /\ GetAttrib(xmltv_cache[SlotAt(LogPos(log[b])).md5], "start")
                  = GetAttrib(root[log[b].at], "start")

====
